---- MODULE Spec2Model ----
(***************************************************************************)
(* Model of the CustomDebug derive macro (src/debug/src/lib.rs) and of the *)
(* builder generated for the Command record of the builder example         *)
(* (src/builder/examples/builder-for-expand/src/main.rs).                  *)
(*                                                                         *)
(* The derive macro is a function from one DeriveInput to generated code,  *)
(* an error, or a panic.  The state holds the DeriveInput, the outcome of  *)
(* the last invocation and of the one before it, so that two invocations   *)
(* on the same input can be compared.                                      *)
(***************************************************************************)
EXTENDS Naturals, Sequences, FiniteSets

VARIABLES input, runs, prev, out, builder, calls, built

vars == <<input, runs, prev, out, builder, calls, built>>

(***************************************************************************)
(* Bounds of the model.                                                    *)
(***************************************************************************)
MaxFields == 2
MaxRuns == 2
MaxCalls == 3

(***************************************************************************)
(* Syntax trees (the part of syn's data model the macro inspects).         *)
(*   Type      [kind, segs, elems]: kind "Path" has path segments, each    *)
(*             with an identifier and its angle-bracketed type arguments;  *)
(*             kind "Reference" has the referenced type in elems.          *)
(*   Lit       [kind, val]: a literal, kind "Str" or "Int".                *)
(*   Meta      [kind, key, lit]: one entry of an attribute's list;         *)
(*             "NotMeta" stands for tokens that do not parse as a Meta.    *)
(*   Attribute [path, style, nested, lit]: style "List" is #[p(...)],      *)
(*             "NameValue" is #[p = lit], "Path" is #[p].                  *)
(***************************************************************************)
Seg(id, args) == [ident |-> id, args |-> args]
P(id) == [kind |-> "Path", segs |-> <<Seg(id, <<>>)>>, elems |-> <<>>]
Assoc(id, member) == [kind |-> "Path", segs |-> <<Seg(id, <<>>), Seg(member, <<>>)>>, elems |-> <<>>]
Gen(id, arg) == [kind |-> "Path", segs |-> <<Seg(id, <<arg>>)>>, elems |-> <<>>]
Ref(ty) == [kind |-> "Reference", segs |-> <<>>, elems |-> <<ty>>]

StrLit(s) == [kind |-> "Str", val |-> s]
IntLit(s) == [kind |-> "Int", val |-> s]
NoLit == [kind |-> "None", val |-> ""]

NameValue(key, lit) == [kind |-> "NameValue", key |-> key, lit |-> lit]
NotMeta == [kind |-> "NotMeta", key |-> "", lit |-> NoLit]

ListAttr(path, nested) == [path |-> path, style |-> "List", nested |-> nested, lit |-> NoLit]
NameValueAttr(path, lit) == [path |-> path, style |-> "NameValue", nested |-> <<>>, lit |-> lit]
PathAttr(path) == [path |-> path, style |-> "Path", nested |-> <<>>, lit |-> NoLit]

TypeParam(id, bounds) == [kind |-> "Type", ident |-> id, bounds |-> bounds]
LifetimeParam(id) == [kind |-> "Lifetime", ident |-> id, bounds |-> <<>>]
Predicate(ty, bound) == [bounded_ty |-> ty, bounds |-> bound]
Field(name, ty, attrs) == [ident |-> name, ty |-> ty, attrs |-> attrs]

DebugTrait == "std::fmt::Debug"

Option(b, v) == [some |-> b, val |-> v]
None == Option(FALSE, "")
Some(v) == Option(TRUE, v)

RECURSIVE Concat(_)
Concat(ss) == IF ss = <<>> THEN <<>> ELSE Head(ss) \o Concat(Tail(ss))

Perms(S) == {p \in [1..Cardinality(S) -> S] : \A i, j \in 1..Cardinality(S) : p[i] = p[j] => i = j}

SeqsUpTo(S, n) == UNION {[1..k -> S] : k \in 0..n}

(***************************************************************************)
(* TypePathVisitor: the paths recorded, in visit order.  A path of two or  *)
(* more segments whose first segment names a type parameter is recorded,   *)
(* and the walk goes on into the type arguments of every segment.          *)
(***************************************************************************)
RECURSIVE visit_type(_, _), visit_types(_, _), visit_segments(_, _)

visit_types(tys, names) ==
  IF tys = <<>> THEN <<>>
  ELSE visit_type(Head(tys), names) \o visit_types(Tail(tys), names)

visit_segments(segs, names) ==
  IF segs = <<>> THEN <<>>
  ELSE visit_types(Head(segs).args, names) \o visit_segments(Tail(segs), names)

visit_type_path_flat(node, names) ==
  IF Len(node.segs) >= 2 /\ node.segs[1].ident \in names THEN <<node>> ELSE <<>>

visit_type_path(node, names) ==
  (IF Len(node.segs) >= 2 /\ node.segs[1].ident \in names THEN <<node>> ELSE <<>>)
    \o visit_segments(node.segs, names)

visit_type(ty, names) ==
  IF ty.kind = "Path" THEN visit_type_path(ty, names) ELSE visit_types(ty.elems, names)

\* visit_derive_input: generics (the where clause's bounded types) before data
\* (the fields' types, in declaration order).
visit_derive_input(d, names) ==
  visit_types([i \in DOMAIN d.generics.where_clause.predicates |->
                 d.generics.where_clause.predicates[i].bounded_ty], names)
    \o visit_types([i \in DOMAIN d.fields |-> d.fields[i].ty], names)

\* The HashMap built by entry(name).or_default().push(node): one key per type
\* parameter that roots a recorded path, its paths in visit order.
get_generic_associated_types(d) ==
  LET names == {d.generics.params[i].ident :
                  i \in {j \in DOMAIN d.generics.params : d.generics.params[j].kind = "Type"}}
      visited == visit_derive_input(d, names)
  IN [k \in {visited[i].segs[1].ident : i \in DOMAIN visited} |->
        SelectSeq(visited, LAMBDA n : n.segs[1].ident = k)]

get_fields_from_derive_input(d) ==
  IF d.shape = "Named"
  THEN [ok |-> TRUE, fields |-> d.fields, message |-> ""]
  ELSE [ok |-> FALSE, fields |-> <<>>, message |-> "Must define on a Struct, not Enum"]

get_field_type_name(field) ==
  IF field.ty.kind = "Path" /\ field.ty.segs # <<>>
  THEN Some(field.ty.segs[Len(field.ty.segs)].ident)
  ELSE None

get_phantomdata_generic_type_name_never(field) == None

get_phantomdata_generic_type_name(field) ==
  IF field.ty.kind = "Path" /\ field.ty.segs # <<>>
  THEN LET last == field.ty.segs[Len(field.ty.segs)]
       IN IF last.ident = "PhantomData" /\ last.args # <<>>
             /\ last.args[1].kind = "Path" /\ last.args[1].segs # <<>>
          THEN Some(last.args[1].segs[1].ident)
          ELSE None
  ELSE None

\* attr.parse_args_with(Punctuated::<Meta, Token![,]>::parse_terminated)
parse_args_with(attr) ==
  IF attr.style = "List" /\ \A i \in DOMAIN attr.nested : attr.nested[i].kind # "NotMeta"
  THEN [ok |-> TRUE, nested |-> attr.nested]
  ELSE [ok |-> FALSE, nested |-> <<>>]

attr_bounds(attr) ==
  IF attr.path = "debug" /\ parse_args_with(attr).ok
  THEN LET nested == parse_args_with(attr).nested
           picked == SelectSeq(nested, LAMBDA m :
                       m.kind = "NameValue" /\ m.key = "bound" /\ m.lit.kind = "Str")
       IN [i \in DOMAIN picked |-> picked[i].lit.val]
  ELSE <<>>

get_struct_escape_hatch(d) ==
  LET escape_hatch == Concat([i \in DOMAIN d.attrs |-> attr_bounds(d.attrs[i])])
  IN [some |-> escape_hatch # <<>>, val |-> escape_hatch]

\* syn::parse_str::<WherePredicate>: the clauses the inputs use.
ClauseT == "T: Trait2"
ClauseTValue == "T::Value: Trait2"
ClauseBad == "T Trait2"

parse_str(s) ==
  CASE s = ClauseT -> [ok |-> TRUE, val |-> Predicate(P("T"), "Trait2")]
    [] s = ClauseTValue -> [ok |-> TRUE, val |-> Predicate(Assoc("T", "Value"), "Trait2")]
    [] OTHER -> [ok |-> FALSE, val |-> Predicate(P(""), "")]

make_where_clause(g) == [g EXCEPT !.where_clause.present = TRUE]

push_predicates(g, preds) ==
  [g EXCEPT !.where_clause.predicates = g.where_clause.predicates \o preds]

\* An outcome: kind "Ok", "Err" (a syn::Error value) or "Panic"; stage is the
\* function it arose in.
Result(kind, stage, message, generics, fields) ==
  [kind |-> kind, stage |-> stage, message |-> message, generics |-> generics, fields |-> fields]

\* The else branch of add_trait_bounds, once the fields are known.  `order` is
\* the order in which the HashMap hands out its keys.
infer_bounds(d, fields, order) ==
  LET field_type_names == {get_field_type_name(fields[i]).val :
                             i \in {j \in DOMAIN fields : get_field_type_name(fields[j]).some}}
      phantomdata_type_param_names ==
        {get_phantomdata_generic_type_name(fields[i]).val :
           i \in {j \in DOMAIN fields : get_phantomdata_generic_type_name(fields[j]).some}}
      associated_types_map == get_generic_associated_types(d)
      bound(param) ==
        IF param.kind # "Type" THEN param
        ELSE IF param.ident \in phantomdata_type_param_names /\ param.ident \notin field_type_names
        THEN param
        ELSE IF param.ident \in DOMAIN associated_types_map /\ param.ident \notin field_type_names
        THEN param
        ELSE [param EXCEPT !.bounds = param.bounds \o <<DebugTrait>>]
      params == [i \in DOMAIN d.generics.params |-> bound(d.generics.params[i])]
      paths == Concat([i \in DOMAIN order |-> associated_types_map[order[i]]])
      preds == [i \in DOMAIN paths |-> Predicate(paths[i], DebugTrait)]
  IN push_predicates(make_where_clause([d.generics EXCEPT !.params = params]), preds)

apply_hatch(d, hatch) ==
  push_predicates(make_where_clause(d.generics), [i \in DOMAIN hatch |-> parse_str(hatch[i]).val])

add_trait_bounds_merged(d, order) ==
  LET hatch == get_struct_escape_hatch(d)
      fields == get_fields_from_derive_input(d)
  IN IF hatch.some /\ \E i \in DOMAIN hatch.val : ~parse_str(hatch.val[i]).ok
     THEN Result("Panic", "add_trait_bounds", "called Result::unwrap() on an Err value", d.generics, <<>>)
     ELSE IF ~fields.ok THEN Result("Err", "add_trait_bounds", fields.message, d.generics, <<>>)
     ELSE Result("Ok", "add_trait_bounds", "",
            infer_bounds([d EXCEPT !.generics = apply_hatch(d, hatch.val)], fields.fields, order),
            <<>>)

add_trait_bounds(d, order) ==
  LET hatch == get_struct_escape_hatch(d)
      fields == get_fields_from_derive_input(d)
  IN IF hatch.some
     THEN IF \E i \in DOMAIN hatch.val : ~parse_str(hatch.val[i]).ok
          THEN Result("Panic", "add_trait_bounds", "called Result::unwrap() on an Err value", d.generics, <<>>)
          ELSE Result("Ok", "add_trait_bounds", "", apply_hatch(d, hatch.val), <<>>)
     ELSE IF ~fields.ok THEN Result("Err", "add_trait_bounds", fields.message, d.generics, <<>>)
     ELSE Result("Ok", "add_trait_bounds", "", infer_bounds(d, fields.fields, order), <<>>)

\* The loop over a field's attributes in debug_fields: the template of the last
\* #[debug = "..."] attribute; a debug attribute of another style is
\* unimplemented!().
RECURSIVE field_debug_format(_, _)
field_debug_format(attrs, debug_format) ==
  IF attrs = <<>> THEN [panic |-> FALSE, format |-> debug_format]
  ELSE LET attr == Head(attrs)
       IN IF attr.path # "debug" THEN field_debug_format(Tail(attrs), debug_format)
          ELSE IF attr.style # "NameValue" THEN [panic |-> TRUE, format |-> None]
          ELSE IF attr.lit.kind = "Str"
          THEN field_debug_format(Tail(attrs), Some(attr.lit.val))
          ELSE field_debug_format(Tail(attrs), debug_format)

FieldEntry(name, format) ==
  [name |-> name, mode |-> IF format.some THEN "format_args" ELSE "default",
   template |-> format.val]

debug_field_first(f) ==
  LET own == SelectSeq(f.attrs, LAMBDA a : a.path = "debug" /\ a.style = "NameValue" /\ a.lit.kind = "Str")
  IN FieldEntry(f.ident, IF own = <<>> THEN None ELSE Some(own[1].lit.val))

debug_field(f) == FieldEntry(f.ident, field_debug_format(f.attrs, None).format)

debug_fields(d) ==
  IF d.shape # "Named" THEN [panic |-> TRUE, entries |-> <<>>]
  ELSE IF \E i \in DOMAIN d.fields : field_debug_format(d.fields[i].attrs, None).panic
  THEN [panic |-> TRUE, entries |-> <<>>]
  ELSE [panic |-> FALSE, entries |-> [i \in DOMAIN d.fields |-> debug_field(d.fields[i])]]

\* expand: the outcome, with the generic clause add_trait_bounds returned (the
\* input's own when it did not return one) and the emitted field entries.
expand(d, order) ==
  LET generics == add_trait_bounds(d, order)
      fields == debug_fields(d)
  IN IF generics.kind # "Ok" THEN generics
     ELSE IF fields.panic THEN Result("Panic", "debug_fields", "not implemented", generics.generics, <<>>)
     ELSE Result("Ok", "expand", "", generics.generics, fields.entries)

NotRun == Result("NotRun", "", "", [params |-> <<>>, where_clause |-> [present |-> FALSE, predicates |-> <<>>]], <<>>)

(***************************************************************************)
(* The derive entry point.  Each invocation expands the same DeriveInput;  *)
(* the HashMap of associated types hands out its keys in an order that     *)
(* differs from one instance to the next (std's RandomState).              *)
(***************************************************************************)
derive ==
  /\ runs < MaxRuns
  /\ \E order \in Perms(DOMAIN get_generic_associated_types(input)) :
       out' = expand(input, order)
  /\ prev' = out
  /\ runs' = runs + 1
  /\ UNCHANGED <<input, builder, calls, built>>

(***************************************************************************)
(* The builder of the Command record.  The record and its attributes are   *)
(* those of the example; the derive that generates the builder is not part *)
(* of the sources at hand, so its methods follow the specification: one    *)
(* slot per field, a replacing setter per field, an appending method per   *)
(* `each` field (and no setter when both would share a name), and build.   *)
(***************************************************************************)
BField(name, ty, each) == [name |-> name, ty |-> ty, each |-> each]

Command ==
  << BField("executable", "String", ""),
     BField("args", "Vec", "arg"),
     BField("env", "Vec", "env"),
     BField("current_dir", "Option", "") >>

FieldNamesOf(rec) == {rec[i].name : i \in DOMAIN rec}

Slot(set, val) == [set |-> set, val |-> val]

\* Command::builder()
builder_new(rec) == [n \in FieldNamesOf(rec) |-> Slot(FALSE, <<>>)]

\* The all-at-once setter: stores the value, replacing any previous one.
builder_set(b, name, v) == [b EXCEPT ![name] = Slot(TRUE, v)]

builder_each_prepend(b, name, x) == [b EXCEPT ![name] = Slot(TRUE, <<x>> \o b[name].val)]

\* The accumulating method: appends one element.
builder_each(b, name, x) == [b EXCEPT ![name] = Slot(TRUE, b[name].val \o <<x>>)]

Required(f) == f.ty # "Option" /\ f.ty # "Vec"

Built(status, missing, command) == [status |-> status, missing |-> missing, command |-> command]

NotBuilt == Built("NotBuilt", "", builder_new(Command))

builder_build_all_required(rec, b) ==
  LET unset == {i \in DOMAIN rec : rec[i].ty # "Vec" /\ ~b[rec[i].name].set}
  IN IF unset # {}
     THEN Built("Err", rec[CHOOSE i \in unset : \A j \in unset : i <= j].name, builder_new(rec))
     ELSE Built("Ok", "", b)

\* build: the first required field left unset is reported; otherwise the
\* record holds each slot's value (an unset Option is absent, an untouched
\* collection is empty).
builder_build(rec, b) ==
  LET unset == {i \in DOMAIN rec : Required(rec[i]) /\ ~b[rec[i].name].set}
  IN IF unset # {}
     THEN Built("Err", rec[CHOOSE i \in unset : \A j \in unset : i <= j].name, builder_new(rec))
     ELSE Built("Ok", "", b)

Strings == {"cargo", "build", "--release"}
Vecs == {<<>>, <<"cargo", "build">>}

Call(method, field, val) == [method |-> method, field |-> field, val |-> val]

\* A setter named after the field: every field without `each`, and an `each`
\* field whose accumulating method has another name.
Setter ==
  /\ built.status = "NotBuilt"
  /\ Len(calls) < MaxCalls
  /\ \E i \in DOMAIN Command :
       /\ Command[i].each # Command[i].name
       /\ \E v \in (IF Command[i].ty = "Vec" THEN Vecs ELSE {<<s>> : s \in Strings}) :
            /\ builder' = builder_set(builder, Command[i].name, v)
            /\ calls' = Append(calls, Call(Command[i].name, Command[i].name, v))
  /\ UNCHANGED <<input, runs, prev, out, built>>

Each ==
  /\ built.status = "NotBuilt"
  /\ Len(calls) < MaxCalls
  /\ \E i \in DOMAIN Command :
       /\ Command[i].each # ""
       /\ \E x \in Strings :
            /\ builder' = builder_each(builder, Command[i].name, x)
            /\ calls' = Append(calls, Call(Command[i].each, Command[i].name, <<x>>))
  /\ UNCHANGED <<input, runs, prev, out, built>>

Build ==
  /\ built.status = "NotBuilt"
  /\ built' = builder_build(Command, builder)
  /\ UNCHANGED <<input, runs, prev, out, builder, calls>>

(***************************************************************************)
(* Inputs.                                                                 *)
(***************************************************************************)
FieldNames == <<"a", "b", "c", "d">>

NoWhere == [present |-> FALSE, predicates |-> <<>>]
OwnWhere == [present |-> TRUE, predicates |-> <<Predicate(Assoc("T", "Value"), "Trait")>>]

Generics(params, where) == [params |-> params, where_clause |-> where]

DeriveInput(attrs, shape, generics, fields) ==
  [attrs |-> attrs, shape |-> shape, generics |-> generics, fields |-> fields]

\* Field lists of up to MaxFields fields, the i-th named FieldNames[i], with a
\* type of Types and an attribute list of AttrLists.
FieldLists(Types, AttrLists) ==
  {[i \in DOMAIN fs |-> Field(FieldNames[i], fs[i][1], fs[i][2])] :
     fs \in SeqsUpTo(Types \X AttrLists, MaxFields)}

InferTypes ==
  { P("T"), P("U"), P("String"),
    Assoc("T", "Value"), Assoc("T", "Item"), Assoc("U", "Value"), Assoc("U", "T"),
    Gen("Vec", P("T")), Gen("Vec", Assoc("T", "Value")),
    Gen("PhantomData", P("T")), Gen("PhantomData", Assoc("T", "Value")),
    Gen("Vec", Gen("PhantomData", P("T"))),
    Ref(P("T")) }

InferParams ==
  { <<TypeParam("T", <<>>)>>,
    <<TypeParam("T", <<"Trait">>), TypeParam("U", <<"Trait">>)>>,
    <<LifetimeParam("'a"), TypeParam("T", <<"Trait">>)>> }

InferInputs ==
  {DeriveInput(<<>>, "Named", Generics(ps, w), fs) :
     ps \in InferParams, w \in {NoWhere, OwnWhere}, fs \in FieldLists(InferTypes, {<<>>})}

Bound(s) == NameValue("bound", StrLit(s))

RecordAttrLists ==
  { <<>>,
    <<ListAttr("debug", <<Bound(ClauseT)>>)>>,
    <<ListAttr("debug", <<Bound(ClauseT), Bound(ClauseTValue)>>)>>,
    <<ListAttr("debug", <<Bound(ClauseTValue)>>), ListAttr("debug", <<Bound(ClauseT)>>)>>,
    <<ListAttr("debug", <<Bound(ClauseT)>>), ListAttr("debug", <<Bound(ClauseT)>>)>>,
    <<NameValueAttr("doc", StrLit("a record")), ListAttr("debug", <<Bound(ClauseT)>>)>>,
    <<ListAttr("debug", <<NameValue("other", StrLit("x")), Bound(ClauseT)>>)>>,
    <<ListAttr("debug", <<NameValue("other", StrLit("x"))>>)>>,
    <<ListAttr("debug", <<NameValue("bound", IntLit("5"))>>)>>,
    <<ListAttr("debug", <<Bound(ClauseT), NotMeta>>)>>,
    <<NameValueAttr("debug", StrLit(ClauseT))>>,
    <<ListAttr("debug", <<Bound(ClauseBad)>>)>> }

RecordTypes == {P("T"), Gen("PhantomData", P("T")), Assoc("T", "Value")}

RecordFieldAttrLists ==
  { <<>>,
    <<NameValueAttr("debug", IntLit("5"))>>,
    <<ListAttr("debug", <<NameValue("format", StrLit("{:.2}"))>>)>> }

RecordParams ==
  { <<TypeParam("T", <<>>)>>,
    <<TypeParam("T", <<"Trait">>), TypeParam("U", <<"Trait">>)>> }

RecordInputs ==
  {DeriveInput(as, "Named", Generics(ps, w), fs) :
     as \in RecordAttrLists, ps \in RecordParams, w \in {NoWhere, OwnWhere},
     fs \in FieldLists(RecordTypes, RecordFieldAttrLists)}
  \cup
  {DeriveInput(as, shape, Generics(ps, w), <<>>) :
     as \in RecordAttrLists, shape \in {"Unnamed", "Unit", "Enum"},
     ps \in RecordParams, w \in {NoWhere, OwnWhere}}

FormatAttrLists ==
  { <<>>,
    <<NameValueAttr("debug", StrLit("{:.2}"))>>,
    <<NameValueAttr("debug", StrLit("0b{:08b}"))>>,
    <<NameValueAttr("debug", StrLit("{:.2}")), NameValueAttr("debug", StrLit("0b{:08b}"))>>,
    <<NameValueAttr("debug", StrLit("{:.2}")), NameValueAttr("debug", IntLit("5"))>>,
    <<NameValueAttr("doc", StrLit("a field")), NameValueAttr("debug", StrLit("{:.2}"))>>,
    <<NameValueAttr("doc", StrLit("a field"))>>,
    <<NameValueAttr("debug", IntLit("5"))>>,
    <<PathAttr("debug")>> }

FormatInputs ==
  {DeriveInput(<<>>, "Named", Generics(<<TypeParam("T", <<>>)>>, NoWhere), fs) :
     fs \in FieldLists({P("T"), P("String")}, FormatAttrLists)}

InitWith(inputs) ==
  /\ input \in inputs
  /\ runs = 0
  /\ prev = NotRun
  /\ out = NotRun
  /\ builder = builder_new(Command)
  /\ calls = <<>>
  /\ built = NotBuilt

Init == InitWith(RecordInputs)
InitInfer == InitWith(InferInputs)
InitFormat == InitWith(FormatInputs)
InitBuilder == InitWith({DeriveInput(<<>>, "Named", Generics(<<>>, NoWhere), <<>>)})

Next == derive
NextBuilder == Setter \/ Each \/ Build

Spec == Init /\ [][Next]_vars
SpecInfer == InitInfer /\ [][Next]_vars
SpecFormat == InitFormat /\ [][Next]_vars
SpecBuilder == InitBuilder /\ [][NextBuilder]_vars

(***************************************************************************)
(* Vocabulary of the properties, stated on the input and the outcome       *)
(* without the macro's own helpers.                                        *)
(***************************************************************************)
Ran == runs > 0

TypeParamNames(d) ==
  {d.generics.params[i].ident :
     i \in {j \in DOMAIN d.generics.params : d.generics.params[j].kind = "Type"}}

Count(seq, x) == Cardinality({i \in DOMAIN seq : seq[i] = x})

\* The Debug bounds a parameter has in the outcome beyond those it was declared with.
AddedDebug(name) ==
  LET i == CHOOSE j \in DOMAIN input.generics.params : input.generics.params[j].ident = name
  IN Count(out.generics.params[i].bounds, DebugTrait)
       - Count(input.generics.params[i].bounds, DebugTrait)

\* The where-predicates of the outcome after the record's own.
AddedPredicates ==
  SubSeq(out.generics.where_clause.predicates,
         Len(input.generics.where_clause.predicates) + 1,
         Len(out.generics.where_clause.predicates))

\* The clauses of the record-level `bound = "<clause>"` entries, in attribute
\* order: entry j of attribute i, for every debug attribute that is a
\* well-formed list.
RECURSIVE SuppliedFrom(_, _, _)
SuppliedFrom(d, i, j) ==
  IF i > Len(d.attrs) THEN <<>>
  ELSE IF j > Len(d.attrs[i].nested) THEN SuppliedFrom(d, i + 1, 1)
  ELSE LET a == d.attrs[i]
           m == a.nested[j]
           wellFormed == a.path = "debug" /\ a.style = "List"
                           /\ \A k \in DOMAIN a.nested : a.nested[k].kind # "NotMeta"
       IN (IF wellFormed /\ m.kind = "NameValue" /\ m.key = "bound" /\ m.lit.kind = "Str"
           THEN <<m.lit.val>> ELSE <<>>) \o SuppliedFrom(d, i, j + 1)

SuppliedClauses == SuppliedFrom(input, 1, 1)

\* Inference ran to the end: no escape hatch, and the macro returned code.
Inferred == Ran /\ SuppliedClauses = <<>> /\ out.kind = "Ok"

\* How parameter `name` is used in a type: "field" as the field's own type,
\* "phantom" as an argument of PhantomData, "generic" as an argument of
\* another type, "other" inside a non-path type, "assoc" as the root of a
\* path of several segments.
RECURSIVE UseKinds(_, _, _)
UseKinds(ty, name, ctx) ==
  IF ty.kind = "Path"
  THEN (IF ty.segs[1].ident = name
        THEN (IF Len(ty.segs) >= 2 THEN {"assoc"} ELSE {ctx}) ELSE {})
       \cup UNION {UNION {UseKinds(ty.segs[i].args[k], name,
                                   IF ty.segs[i].ident = "PhantomData" THEN "phantom" ELSE "generic") :
                            k \in DOMAIN ty.segs[i].args} :
                     i \in DOMAIN ty.segs}
  ELSE UNION {UseKinds(ty.elems[k], name, "other") : k \in DOMAIN ty.elems}

FieldUses(name) == UNION {UseKinds(input.fields[i].ty, name, "field") : i \in DOMAIN input.fields}

\* Every node of a type, the type itself first.
RECURSIVE SubTypes(_)
SubTypes(ty) ==
  <<ty>> \o
  (IF ty.kind = "Path"
   THEN Concat([i \in DOMAIN ty.segs |->
                  Concat([k \in DOMAIN ty.segs[i].args |-> SubTypes(ty.segs[i].args[k])])])
   ELSE Concat([k \in DOMAIN ty.elems |-> SubTypes(ty.elems[k])]))

\* The type nodes of the record: the where clause's bounded types, then the
\* fields' types.
WhereNodes ==
  Concat([i \in DOMAIN input.generics.where_clause.predicates |->
            SubTypes(input.generics.where_clause.predicates[i].bounded_ty)])
FieldNodes == Concat([i \in DOMAIN input.fields |-> SubTypes(input.fields[i].ty)])
AllNodes == WhereNodes \o FieldNodes

IsAssocPath(n) ==
  n.kind = "Path" /\ Len(n.segs) >= 2 /\ n.segs[1].ident \in TypeParamNames(input)

\* Some field's type is a path that ends in a segment named `name`.
EndsIn(name) ==
  \E i \in DOMAIN input.fields :
    /\ input.fields[i].ty.kind = "Path"
    /\ input.fields[i].ty.segs[Len(input.fields[i].ty.segs)].ident = name

\* Every associated-type path rooted at `name` in the fields has a Debug predicate.
AssocPredicatesPresent(name) ==
  LET nodes == FieldNodes
      preds == out.generics.where_clause.predicates
  IN \A n \in {nodes[i] : i \in DOMAIN nodes} :
       (IsAssocPath(n) /\ n.segs[1].ident = name)
         => \E k \in DOMAIN preds : preds[k] = Predicate(n, DebugTrait)

\* Every field that mentions `name` has the type PhantomData<name> itself.
OnlyPhantomFields(name) ==
  /\ FieldUses(name) # {}
  /\ \A i \in DOMAIN input.fields :
       UseKinds(input.fields[i].ty, name, "field") # {}
         => input.fields[i].ty = Gen("PhantomData", P(name))

\* The associated-type paths in parameter declaration order, each parameter's
\* in order of occurrence.
StableOrder ==
  Concat([i \in DOMAIN input.generics.params |->
            SelectSeq(AllNodes, LAMBDA n :
              IsAssocPath(n) /\ n.segs[1].ident = input.generics.params[i].ident
                /\ input.generics.params[i].kind = "Type")])

\* The distinct associated-type paths among the nodes.
AssocPaths(nodes) == {n \in {nodes[i] : i \in DOMAIN nodes} : IsAssocPath(n)}

\* A field's format-string entries, in attribute order.
Templates(f) ==
  SelectSeq(f.attrs, LAMBDA a : a.path = "debug" /\ a.style = "NameValue" /\ a.lit.kind = "Str")

\* Structurally invalid debug metadata on the record or on a field.
MalformedEntry(m) == m.kind = "NotMeta" \/ (m.kind = "NameValue" /\ m.lit.kind # "Str")

MalformedRecordAttr(a) ==
  a.path = "debug" /\ (a.style # "List" \/ \E j \in DOMAIN a.nested : MalformedEntry(a.nested[j]))

MalformedFieldAttr(a) ==
  /\ a.path = "debug"
  /\ \/ a.style = "NameValue" /\ a.lit.kind # "Str"
     \/ \E j \in DOMAIN a.nested : MalformedEntry(a.nested[j])

Malformed ==
  \/ \E i \in DOMAIN input.attrs : MalformedRecordAttr(input.attrs[i])
  \/ \E i \in DOMAIN input.fields :
       \E k \in DOMAIN input.fields[i].attrs : MalformedFieldAttr(input.fields[i].attrs[k])

\* The builder calls made with one method, the last value a setter was given,
\* and the elements an accumulating method was given.
CallsOf(method) == SelectSeq(calls, LAMBDA c : c.method = method)

LastSet(name) == CallsOf(name)[Len(CallsOf(name))].val

Accumulated(f) == Concat([i \in DOMAIN CallsOf(f.each) |-> CallsOf(f.each)[i].val])

\* What the calls leave in an `each` field: the last all-at-once value, then
\* the elements accumulated since.
RECURSIVE Replay(_, _)
Replay(f, cs) ==
  IF cs = <<>> THEN <<>>
  ELSE LET c == cs[Len(cs)]
           before == SubSeq(cs, 1, Len(cs) - 1)
       IN IF c.field # f.name THEN Replay(f, before)
          ELSE IF c.method = f.each THEN Replay(f, before) \o c.val
          ELSE c.val

\* No call was made for the field.
NeverSet(f) == \A k \in DOMAIN calls : calls[k].field # f.name

(***************************************************************************)
(* C1.  Escape hatch replaces inference: when the record carries           *)
(* `bound = "<clause>"` entries and add_trait_bounds returns, the generic  *)
(* clause holds the record's own where-predicates followed by exactly the  *)
(* supplied clauses, in attribute order with duplicates kept; no parameter *)
(* receives a bound and no associated-type predicate is added.             *)
(***************************************************************************)
C1_HatchReplacesInference ==
  (Ran /\ SuppliedClauses # <<>> /\ (out.kind = "Ok" \/ out.stage = "debug_fields"))
    => /\ out.generics.params = input.generics.params
       /\ Len(AddedPredicates) = Len(SuppliedClauses)
       /\ \A i \in DOMAIN SuppliedClauses : AddedPredicates[i] = parse_str(SuppliedClauses[i]).val
       /\ SubSeq(out.generics.where_clause.predicates, 1,
                 Len(input.generics.where_clause.predicates))
            = input.generics.where_clause.predicates

\* A record with a field of type T and one of type T::Value, whose two
\* supplied clauses are the whole of what was added.
C1_Witness ==
  /\ Ran /\ out.kind = "Ok"
  /\ Len(SuppliedClauses) = 2
  /\ SuppliedClauses[1] # SuppliedClauses[2]
  /\ "field" \in FieldUses("T") /\ "assoc" \in FieldUses("T")
  /\ Len(AddedPredicates) = 2

C8_DirectUseDominates ==
  Inferred =>
    \A name \in TypeParamNames(input) :
      ("field" \in FieldUses(name) \/ "generic" \in FieldUses(name)) => AddedDebug(name) = 1

(***************************************************************************)
(* C9.  Deterministic clause: two invocations on the same record return    *)
(* the same generic clause, the added predicates following the parameters' *)
(* declaration order and, for one parameter, the order of occurrence.      *)
(***************************************************************************)
C9_DeterministicClause ==
  /\ (runs >= 2 /\ prev.kind = "Ok" /\ out.kind = "Ok") => prev.generics = out.generics
  /\ Inferred => AddedPredicates = [i \in DOMAIN StableOrder |-> Predicate(StableOrder[i], DebugTrait)]

C5_FieldEntries ==
  (Ran /\ out.kind = "Ok") =>
    /\ Len(out.fields) = Len(input.fields)
    /\ \A i \in DOMAIN input.fields :
         LET ts == Templates(input.fields[i])
         IN /\ out.fields[i].name = input.fields[i].ident
            /\ ts = <<>> => out.fields[i].mode = "default"
            /\ ts # <<>> => /\ out.fields[i].mode = "format_args"
                            /\ out.fields[i].template = ts[Len(ts)].lit.val

\* Two fields: the first carries two templates, the second none.
C5_Witness ==
  /\ Ran /\ out.kind = "Ok"
  /\ Len(input.fields) = 2
  /\ Len(Templates(input.fields[1])) = 2
  /\ Templates(input.fields[2]) = <<>>
  /\ out.fields[1].template = "0b{:08b}"
  /\ out.fields[2].mode = "default"

(***************************************************************************)
(* C6.  Unsupported shape: for an input that is not a record with named    *)
(* fields, with or without an escape hatch, expand returns the error value *)
(* and no code; it neither returns code nor panics.                        *)
(***************************************************************************)
C6_UnsupportedShapeIsError ==
  (Ran /\ input.shape # "Named") => (out.kind = "Err" /\ out.fields = <<>>)

(***************************************************************************)
(* C7.  Malformed metadata is reported: when a debug tag of the record or  *)
(* of a field holds a structurally invalid entry (a value that is not a    *)
(* string literal, tokens that are no entry, a record tag that is no       *)
(* list), expand returns an error and no code.                             *)
(***************************************************************************)
C7_MalformedIsReported ==
  (Ran /\ Malformed) => out.kind = "Err"

(***************************************************************************)
(* C3.  Builder round trip, as the claim states it: after build succeeds,  *)
(* a plain field holds the last value set for it and an `each` field holds *)
(* the elements passed to its accumulating method, in call order.          *)
(***************************************************************************)
C3_RoundTripAsClaimed ==
  built.status = "Ok" =>
    \A i \in DOMAIN Command :
      IF Command[i].each = ""
      THEN CallsOf(Command[i].name) # <<>> => built.command[Command[i].name].val = LastSet(Command[i].name)
      ELSE built.command[Command[i].name].val = Accumulated(Command[i])

\* C3 as amended: an `each` field holds the value of the last all-at-once set
\* made for it, if any, followed by the elements accumulated since.
C3_RoundTrip ==
  built.status = "Ok" =>
    \A i \in DOMAIN Command :
      IF Command[i].each = ""
      THEN CallsOf(Command[i].name) # <<>> => built.command[Command[i].name].val = LastSet(Command[i].name)
      ELSE built.command[Command[i].name].val = Replay(Command[i], calls)

\* The example's main: executable, then arg twice, then build.
C3_Witness ==
  /\ built.status = "Ok"
  /\ calls = << Call("executable", "executable", <<"cargo">>),
                Call("arg", "args", <<"build">>),
                Call("arg", "args", <<"--release">>) >>
  /\ built.command["executable"].val = <<"cargo">>
  /\ built.command["args"].val = <<"build", "--release">>

(***************************************************************************)
(* C4.  Builder finalize: build fails, naming the field, exactly when a    *)
(* required field was never set; an Option field left unset is absent and  *)
(* an `each` field never touched is the empty collection.                  *)
(***************************************************************************)
C4_BuildFailsIffRequiredUnset ==
  built.status # "NotBuilt" =>
    /\ built.status = "Err" <=> \E i \in DOMAIN Command : Required(Command[i]) /\ NeverSet(Command[i])
    /\ built.status = "Err" =>
         \E i \in DOMAIN Command :
           Required(Command[i]) /\ NeverSet(Command[i]) /\ built.missing = Command[i].name
    /\ built.status = "Ok" =>
         \A i \in DOMAIN Command :
           NeverSet(Command[i]) => built.command[Command[i].name] = Slot(FALSE, <<>>)

\* build fails on the unset executable although other fields were set.
C4_Witness ==
  /\ built.status = "Err"
  /\ built.missing = "executable"
  /\ Len(calls) = MaxCalls
  /\ \E k \in DOMAIN calls : calls[k].field = "current_dir"

====
